---- MODULE Spec2Model ----
(***************************************************************************)
(* Model of src/ml/forecasting.py: the training-job registry and its       *)
(* background training unit, the fallback forecast generator, the          *)
(* forecast and price endpoints, and the LSTM forecaster's sliding-window   *)
(* preparation and autoregressive forecast.                                 *)
(*                                                                          *)
(* Numbers.  Floats are modelled in fixed point.  Occupancy values are in   *)
(* units of 1/10000 (One = 1.0); every value the fallback generator         *)
(* computes is an exact multiple of that unit.  Metrics (mape, accuracy)    *)
(* and confidences are in hundredths.  A pd.Timestamp is a count of time    *)
(* units since 2024-01-01T00:00 (a Monday), UnitsPerDay units to the day,   *)
(* so a timestamp carries a time of day as pandas timestamps do.            *)
(***************************************************************************)
EXTENDS Integers, Sequences, FiniteSets, TLC

VARIABLES
    training_jobs,  \* the module-level dict: job id -> job entry
    tasks,          \* the background tasks added by train_model: job id -> frame
    now,            \* datetime.utcnow(), read to the second
    artifacts,      \* files written under MODELS_DIR: set of [path, job]
    request,        \* the call being answered (endpoint or method, arguments)
    response,       \* what that call returned or raised
    lstm            \* an LSTMForecaster instance driven directly

vars == <<training_jobs, tasks, now, artifacts, request, response, lstm>>

\* Python's None is the empty tuple.  An optional record is None or the
\* record; an optional number or string is None or Some(value).
None == <<>>
Some(v) == <<v>>
the(opt) == opt[1]

\* An exception: its class and str(e).
Exc(type, message) == [type |-> type, message |-> message]
str(e) == e.message

(***************************************************************************)
(* Bounds of the model.                                                     *)
(***************************************************************************)
UnitsPerDay == 2    \* time-of-day resolution of a timestamp
MaxSpanDays == 3    \* longest forecast range, in days
MaxJobs == 2        \* training submissions per run
MaxClock == 1       \* seconds the clock may advance
MaxLen == 3         \* longest series handed to the LSTM forecaster directly
MaxVal == 1         \* largest raw observation value
MaxPeriods == 2     \* longest autoregressive forecast
MaxSeqLen == 2      \* largest sequence_length of a directly driven forecaster
MaxWeight == 0      \* fitted networks are told apart by a weight in 0..MaxWeight

Min(a, b) == IF a <= b THEN a ELSE b
Max(a, b) == IF a >= b THEN a ELSE b

(***************************************************************************)
(* Calendar: pd.Timestamp, pd.to_datetime, isoformat, month, dayofweek.     *)
(***************************************************************************)
IsLeap(y) == (y % 4 = 0 /\ y % 100 # 0) \/ y % 400 = 0

DaysInMonth(y, m) ==
    IF m = 2 THEN (IF IsLeap(y) THEN 29 ELSE 28)
    ELSE IF m \in {4, 6, 9, 11} THEN 30 ELSE 31

DaysInYear(y) == IF IsLeap(y) THEN 366 ELSE 365

RECURSIVE CivilFrom(_, _, _)
CivilFrom(y, m, d) ==
    IF d < DaysInMonth(y, m)
    THEN [year |-> y, month |-> m, day |-> d + 1]
    ELSE CivilFrom(IF m = 12 THEN y + 1 ELSE y,
                   IF m = 12 THEN 1 ELSE m + 1,
                   d - DaysInMonth(y, m))

\* The calendar day (year, month, day) a timestamp falls on.
CalendarDay(ts) == CivilFrom(2024, 1, ts \div UnitsPerDay)

TimeOfDay(ts) == ts % UnitsPerDay

\* Timestamp.month and Timestamp.dayofweek (Monday = 0).
month_of(ts) == CalendarDay(ts).month
dayofweek(ts) == (ts \div UnitsPerDay) % 7

\* Timestamp.isoformat(): the date string of a timestamp.
isoformat(ts) ==
    [year |-> CalendarDay(ts).year, month |-> CalendarDay(ts).month,
     day |-> CalendarDay(ts).day, time |-> TimeOfDay(ts)]

RECURSIVE DaysBeforeMonth(_, _)
DaysBeforeMonth(y, m) ==
    IF m = 1 THEN 0 ELSE DaysBeforeMonth(y, m - 1) + DaysInMonth(y, m - 1)

RECURSIVE DaysBeforeYear(_)
DaysBeforeYear(y) ==
    IF y <= 2024 THEN 0 ELSE DaysBeforeYear(y - 1) + DaysInYear(y - 1)

\* A date string is its fields; pd.to_datetime raises on one that names no
\* date (BadDate), and the model's calendar starts in 2024.
BadDate == [year |-> 2024, month |-> 13, day |-> 1, time |-> 0]
parses(s) ==
    /\ s.year >= 2024
    /\ s.month \in 1..12
    /\ s.day \in 1..DaysInMonth(s.year, s.month)
    /\ s.time \in 0..(UnitsPerDay - 1)

\* pd.to_datetime(s) of a date string that parses
to_datetime(s) ==
    (DaysBeforeYear(s.year) + DaysBeforeMonth(s.year, s.month) + (s.day - 1))
        * UnitsPerDay + s.time

\* timedelta(days=n) and Timedelta.days (floor of whole days).
timedelta_days(n) == n * UnitsPerDay
days_of(delta) ==
    IF delta >= 0 THEN delta \div UnitsPerDay
    ELSE -((-delta + UnitsPerDay - 1) \div UnitsPerDay)

(***************************************************************************)
(* generate_fallback_forecast                                               *)
(***************************************************************************)
One == 10000            \* 1.0 in occupancy units
base_occupancy == 5     \* 0.5, in tenths

\* seasonal factor by month, in hundredths
seasonal_map ==
    <<85, 90, 95, 105, 115, 130, 135, 135, 120, 110, 95, 100>>

\* 1.2 on Saturday and Sunday, else 1.0, in tenths
weekend_factor(day_of_week) == IF day_of_week >= 5 THEN 12 ELSE 10

\* predicted_value = min(max(base * seasonal * weekend, 0.0), 1.0)
predicted_value_of(current_date) ==
    Min(Max(base_occupancy * seasonal_map[month_of(current_date)]
                * weekend_factor(dayofweek(current_date)), 0), One)

\* A lower bound that lies above the prediction (C8 must tell it apart)
lowerBound_Mutant(predicted_value) == Min(predicted_value + 1000, One)
\* lowerBound = max(predicted_value - 0.1, 0.0)
lowerBound_of(predicted_value) == Max(predicted_value - 1000, 0)

\* upperBound = min(predicted_value + 0.1, 1.0)
upperBound_of(predicted_value) == Min(predicted_value + 1000, One)

FallbackPoint(current_date) ==
    [date |-> isoformat(current_date),
     predictedValue |-> predicted_value_of(current_date),
     lowerBound |-> lowerBound_of(predicted_value_of(current_date)),
     upperBound |-> upperBound_of(predicted_value_of(current_date)),
     confidence |-> 50]

\* A loop that stops one day short (C9 must tell it apart)
loop_continues_Mutant(current_date, end_date) == current_date < end_date
\* while current_date <= end_date
loop_continues(current_date, end_date) == current_date <= end_date

RECURSIVE fallback_loop(_, _, _)
fallback_loop(current_date, end_date, forecast_points) ==
    IF loop_continues(current_date, end_date)
    THEN fallback_loop(current_date + timedelta_days(1), end_date,
                       Append(forecast_points, FallbackPoint(current_date)))
    ELSE forecast_points

generate_fallback_forecast(start_date, end_date) ==
    fallback_loop(start_date, end_date, <<>>)

(***************************************************************************)
(* MinMaxScaler.  Normalised values are in units of 1/NormUnit, where       *)
(* NormUnit is a multiple of every possible data range, so the scaling is   *)
(* exact.  A scaler is None until fitted, then [data_min, data_max].        *)
(***************************************************************************)
RECURSIVE Factorial(_)
Factorial(n) == IF n <= 1 THEN 1 ELSE n * Factorial(n - 1)

NormUnit == Factorial(MaxVal + 1)

Values(q) == {q[i] : i \in 1..Len(q)}

\* data.min(), data.max() of a non-empty array
SeqMin(q) == CHOOSE m \in Values(q) : \A x \in Values(q) : m <= x
SeqMax(q) == CHOOSE m \in Values(q) : \A x \in Values(q) : m >= x

RECURSIVE SeqSum(_)
SeqSum(s) == IF s = <<>> THEN 0 ELSE s[1] + SeqSum(Tail(s))

\* sklearn: a zero data range is scaled by 1.
data_range(scaler) ==
    IF scaler.data_max = scaler.data_min THEN 1
    ELSE scaler.data_max - scaler.data_min

scaler_fit(data) == [data_min |-> SeqMin(data), data_max |-> SeqMax(data)]

\* transform: (x - data_min) / data_range, in units of 1/NormUnit
scaler_transform(scaler, data) ==
    CHOOSE scaled \in
        {[i \in 1..Len(data) |->
            ((data[i] - s.data_min) * NormUnit) \div data_range(s)] :
                s \in {scaler}} : TRUE

\* inverse_transform: x * data_range + data_min; raw values in units of
\* 1/NormUnit
scaler_inverse_transform(scaler, scaled) ==
    CHOOSE raw \in
        {[i \in 1..Len(scaled) |->
            scaled[i] * data_range(s) + s.data_min * NormUnit] :
                s \in {scaler}} : TRUE

(***************************************************************************)
(* LSTMForecaster.  An instance is [model, scaler, sequence_length]; model  *)
(* is None or a network [weights].  The network library is outside the      *)
(* repository: build_model returns a network with initial weights 0, fit    *)
(* returns or raises and leaves some weights, predict is a deterministic    *)
(* function of the weights and the window.                                  *)
(***************************************************************************)
default_sequence_length == 30

LSTMForecaster(sequence_length) ==
    [model |-> None, scaler |-> None, sequence_length |-> sequence_length]

\* X of prepare_data: the windows scaled[i : i + L], i in range(len - L)
prepare_X(scaled_data, L) ==
    [i \in 1..Max(0, Len(scaled_data) - L) |->
        SubSeq(scaled_data, i, i + L - 1)]

\* y of prepare_data: the targets scaled[i + L]
prepare_y(scaled_data, L) ==
    [i \in 1..Max(0, Len(scaled_data) - L) |-> scaled_data[i + L]]

\* model.predict on one window
model_predict(model, window) ==
    (model.weights + SeqSum(window) + window[1]) % (NormUnit + 1)

\* What the library may do in one call of train: fit raises or returns,
\* the fitted weights, the measured mape (hundredths).
FitOutcomes ==
    {[fit |-> "raise", weights |-> 0, mape |-> 0]}
        \cup {[fit |-> "ok", weights |-> w, mape |-> 20] : w \in 0..MaxWeight}

train_result(self, ret, exc, calls) ==
    [self |-> self, ret |-> ret, exc |-> exc, calls |-> calls]

\* int(len(X) * 0.8)
split_idx(X) == (Len(X) * 8) \div 10

\* LSTMForecaster.train.  Returns the instance as the call leaves it, the
\* metrics or the exception raised, and the library calls made, in order.
LSTM_train(self, data, parameters, lib) ==
    IF Len(data) = 0
    THEN \* fit_transform of an empty array raises ValueError
         train_result(self, None,
                      Exc("ValueError", "Found array with 0 sample(s)"), <<>>)
    ELSE
    LET fitted == [self EXCEPT !.scaler = scaler_fit(data)]
        scaled_data == scaler_transform(fitted.scaler, data)
        X == prepare_X(scaled_data, self.sequence_length)
    IN  IF Len(X) = 0
        THEN \* X is np.array([]), of shape (0,): X.shape[1] raises
             train_result(fitted, None,
                          Exc("IndexError", "tuple index out of range"), <<>>)
        ELSE
        LET built == [fitted EXCEPT !.model = [weights |-> 0]]
        IN  IF lib.fit = "raise"
            THEN train_result(built, None, Exc("LibraryError", "fit failed"),
                              <<"build_model", "fit">>)
            ELSE train_result(
                    [built EXCEPT !.model = [weights |-> lib.weights]],
                    [mape |-> lib.mape, accuracy |-> 100 - lib.mape],
                    None,
                    <<"build_model", "fit", "predict">>)

\* A window that drops its newest value, not its oldest (C10 must tell it
\* apart)
slide_Mutant(current_sequence, next_pred) ==
    Append(SubSeq(current_sequence, 1, Len(current_sequence) - 1), next_pred)
\* np.append(current_sequence[:, 1:, :], [[next_pred]], axis=1)
slide(current_sequence, next_pred) ==
    Append(Tail(current_sequence), next_pred)

\* The loop of forecast: the predictions made and the windows fed to predict.
RECURSIVE forecast_loop(_, _, _, _, _)
forecast_loop(model, current_sequence, remaining, predictions, windows) ==
    IF remaining <= 0
    THEN [predictions |-> predictions, windows |-> windows]
    ELSE LET next_pred == model_predict(model, current_sequence)
         IN  forecast_loop(model, slide(current_sequence, next_pred),
                           remaining - 1, Append(predictions, next_pred),
                           Append(windows, current_sequence))

\* scaled_sequence[-L:]
last_L(scaled_sequence, L) ==
    SubSeq(scaled_sequence, Max(1, Len(scaled_sequence) - L + 1),
           Len(scaled_sequence))

\* LSTMForecaster.forecast.  Returns the forecast (values) or the exception
\* raised, with the normalised predictions and the windows fed to the
\* network.
LSTM_forecast(self, last_sequence, periods) ==
    IF self.model = None
    THEN [self |-> self, values |-> <<>>,
          exc |-> Exc("ValueError", "Model not trained. Call train() first."),
          predictions |-> <<>>, windows |-> <<>>]
    ELSE
    LET scaled_sequence == scaler_transform(self.scaler, last_sequence)
        window == last_L(scaled_sequence, self.sequence_length)
    IN  IF Len(window) # self.sequence_length
        THEN \* reshape(1, L, 1) of fewer than L values raises
             [self |-> self, values |-> <<>>,
              exc |-> Exc("ValueError", "cannot reshape array"),
              predictions |-> <<>>, windows |-> <<>>]
        ELSE
        LET run == forecast_loop(self.model, window, periods, <<>>, <<>>)
        IN  [self |-> self,
             values |-> scaler_inverse_transform(self.scaler,
                                                 run.predictions),
             exc |-> None, predictions |-> run.predictions,
             windows |-> run.windows]

(***************************************************************************)
(* ProphetForecaster.  The decomposition library is outside the repository: *)
(* fit returns or raises, and the values it predicts are the library's.     *)
(***************************************************************************)
ProphetForecaster == [model |-> None]

Prophet_train(self, df, parameters, lib) ==
    LET built == [self EXCEPT !.model = [fitted |-> FALSE, history |-> <<>>]]
    IN  IF lib.fit = "raise"
        THEN train_result(built, None, Exc("LibraryError", "fit failed"),
                          <<"Prophet", "fit">>)
        ELSE train_result(
                [built EXCEPT !.model =
                    [fitted |-> TRUE,
                     history |-> [i \in 1..Len(df) |-> df[i].ds]]],
                [mape |-> lib.mape, accuracy |-> 100 - lib.mape],
                None,
                <<"Prophet", "fit", "predict">>)

\* ProphetForecaster.forecast: the rows of make_future_dataframe (the history
\* dates, then `periods` further days), each with the library's estimate.
Prophet_forecast(self, periods) ==
    LET history == self.model.history
        last_date == history[Len(history)]
    IN  [i \in 1..(Len(history) + periods) |->
            [ds |-> IF i <= Len(history) THEN history[i]
                    ELSE last_date + timedelta_days(i - Len(history)),
             yhat |-> 4000, yhat_lower |-> 3000, yhat_upper |-> 5000]]

\* The DataFrame built from HistoricalDataPoint records: rows [ds, y], or the
\* exception pd.to_datetime raises.
build_df(points) ==
    IF \E i \in 1..Len(points) : ~parses(points[i].date)
    THEN [df |-> None, exc |-> Exc("ParserError", "Unknown datetime string")]
    ELSE [df |-> [i \in 1..Len(points) |->
                    [ds |-> to_datetime(points[i].date), y |-> points[i].value]],
          exc |-> None]

(***************************************************************************)
(* The training-job registry and the /train, /train/status endpoints.       *)
(***************************************************************************)
JobIds == 1..MaxJobs

DictSet(d, k, v) == [x \in DOMAIN d \cup {k} |-> IF x = k THEN v ELSE d[x]]

\* uuid.uuid4(): an identifier no earlier call returned
uuid4(jobs) == JobIds \ DOMAIN jobs

utcnow_isoformat(t) == t

\* strftime('%Y%m%d_%H%M%S'): the time to the second
strftime_seconds(t) == t

\* An entry stored as already COMPLETED (C2 must tell it apart)
NewJob_Mutant(req, t) ==
    [status |-> "COMPLETED", modelType |-> req.modelType,
     startedAt |-> Some(utcnow_isoformat(t)),
     accuracy |-> None, mape |-> None, completedAt |-> None,
     modelPath |-> None, errorMessage |-> None, failedAt |-> None]
\* The entry train_model stores.  A key the dict lacks reads as None
\* (job.get).
NewJob(req, t) ==
    [status |-> "PENDING", modelType |-> req.modelType,
     startedAt |-> Some(utcnow_isoformat(t)),
     accuracy |-> None, mape |-> None, completedAt |-> None,
     modelPath |-> None, errorMessage |-> None, failedAt |-> None]

TrainingResponse(jobId, modelType, status, accuracy, mape, errorMessage) ==
    [op |-> "train", code |-> 200, jobId |-> jobId, modelType |-> modelType,
     status |-> status, accuracy |-> accuracy, mape |-> mape,
     errorMessage |-> errorMessage]

HTTPException(op, status_code, detail) ==
    [op |-> op, code |-> status_code, detail |-> detail]

\* background_tasks.add_task(train_model_background, job_id, request)
add_task(ts, job_id, req) ==
    DictSet(ts, job_id,
            [pc |-> "queued", request |-> req, df |-> None,
             forecaster |-> None, metrics |-> None, model_path |-> None,
             exc |-> None])

get_training_status(jobs, job_id) ==
    IF job_id \notin DOMAIN jobs
    THEN HTTPException("status", 404, "Training job not found")
    ELSE [TrainingResponse(job_id, jobs[job_id].modelType,
                           jobs[job_id].status, jobs[job_id].accuracy,
                           jobs[job_id].mape, jobs[job_id].errorMessage)
            EXCEPT !.op = "status"]

(***************************************************************************)
(* train_model_background, statement by statement.                          *)
(***************************************************************************)
\* A unit that never writes IN_PROGRESS (C1 must tell it apart)
MarkInProgress_Skip(jobs, job_id) == jobs
\* A unit that writes IN_PROGRESS on every entry (C6 must tell it apart)
MarkInProgress_All(jobs, job_id) ==
    [j \in DOMAIN jobs |-> [jobs[j] EXCEPT !.status = "IN_PROGRESS"]]
\* training_jobs[job_id]['status'] = 'IN_PROGRESS'
MarkInProgress(jobs, job_id) ==
    [jobs EXCEPT ![job_id].status = "IN_PROGRESS"]

\* An absent propertyId.  The code reads the field only in
\* `request.propertyId or 'global'`, where None and '' behave alike.
NoProperty == ""

\* model_path: MODELS_DIR / <type>_<propertyId or 'global'>_<time to the
\* second><extension>
model_path_of(req, t) ==
    [type |-> req.modelType,
     property |-> IF req.propertyId = NoProperty THEN "global"
                  ELSE req.propertyId,
     stamp |-> strftime_seconds(t),
     ext |-> IF req.modelType = "prophet" THEN ".pkl" ELSE ""]

\* What the storage may do in one call of save: return, or raise before or
\* after the file exists.
SaveOutcomes ==
    {[raises |-> FALSE, wrote |-> TRUE], [raises |-> TRUE, wrote |-> FALSE],
     [raises |-> TRUE, wrote |-> TRUE]}

\* forecaster.save(path): nothing is written for an untrained instance
save_writes(forecaster, io) == forecaster.model # None /\ io.wrote

\* df['y'].values
df_values(df) == [i \in 1..Len(df) |-> df[i].y]

\* The if / elif / else on request.modelType with the call of train: the
\* results train may give, over what the library may do.
dispatch_train(req, df) ==
    IF req.modelType = "prophet"
    THEN {Prophet_train(ProphetForecaster, df, req.parameters, lib) :
            lib \in FitOutcomes}
    ELSE IF req.modelType = "lstm"
    THEN (IF Len(df) = 0
          THEN {train_result(LSTMForecaster(default_sequence_length), None,
                             Exc("KeyError", "'y'"), <<>>)}
          ELSE {LSTM_train(LSTMForecaster(default_sequence_length),
                           data, req.parameters, lib) :
                    data \in {df_values(df)}, lib \in FitOutcomes})
    ELSE \* the pattern of TrainingRequest admits one other type, "optimization"
         {train_result(None, None,
                       Exc("ValueError", "Unknown model type: optimization"),
                       <<>>)}

try_result(exc, df, forecaster, metrics, model_path, wrote) ==
    [exc |-> exc, df |-> df, forecaster |-> forecaster, metrics |-> metrics,
     model_path |-> model_path, wrote |-> wrote]

\* forecaster.save(model_path) after a successful train: each way the
\* storage may behave
save_outcomes(req, df, out, t) ==
    {try_result(IF io.raises THEN Exc("OSError", "save failed") ELSE None,
                df, out.self, out.ret, model_path_of(req, t),
                save_writes(out.self, io)) : io \in SaveOutcomes}

\* The dispatch on modelType with train, each way the library may behave,
\* then save
train_outcomes(req, df, t) ==
    UNION {IF out.exc # None
           THEN {try_result(out.exc, df, out.self, None, None, FALSE)}
           ELSE save_outcomes(req, df, out, t) :
                out \in dispatch_train(req, df)}

\* The try block after line 502, up to and including forecaster.save: every
\* way it may end, as the exception raised or the locals it leaves.
TryOutcomes(req, t) ==
    UNION {IF built.exc # None
           THEN {try_result(built.exc, None, None, None, None, FALSE)}
           ELSE train_outcomes(req, built.df, t) :
                built \in {build_df(req.trainingData)}}

RecordCompletion(jobs, job_id, metrics, model_path, t) ==
    [jobs EXCEPT ![job_id] =
        [@ EXCEPT !.status = "COMPLETED",
                  !.accuracy = Some(metrics.accuracy),
                  !.mape = Some(metrics.mape),
                  !.completedAt = Some(utcnow_isoformat(t)),
                  !.modelPath = model_path]]

\* An except branch that records COMPLETED (C3 must tell it apart)
RecordFailure_Completed(jobs, job_id, e, t) ==
    [jobs EXCEPT ![job_id] =
        [@ EXCEPT !.status = "COMPLETED",
                  !.errorMessage = Some(str(e)),
                  !.failedAt = Some(utcnow_isoformat(t))]]
\* An except branch that swallows the exception (C5 must tell it apart)
RecordFailure_Silent(jobs, job_id, e, t) == jobs
\* The except branch: status FAILED, errorMessage str(e), failedAt
RecordFailure(jobs, job_id, e, t) ==
    [jobs EXCEPT ![job_id] =
        [@ EXCEPT !.status = "FAILED",
                  !.errorMessage = Some(str(e)),
                  !.failedAt = Some(utcnow_isoformat(t))]]

\* The frame of a unit that has returned: its locals are gone; the
\* exception it caught, if any, is kept as the record of the run.
finished(frame, e) ==
    [frame EXCEPT !.pc = "done", !.exc = e, !.df = None,
                  !.forecaster = None, !.metrics = None]

\* The registry after the try block: an exception raised inside it runs the
\* except branch; otherwise the entry waits for the update of line 539.
registry_after_try(jobs, job_id, out, t) ==
    IF out.exc # None THEN RecordFailure(jobs, job_id, out.exc, t) ELSE jobs

\* The unit's frame after the try block: returned from the except branch, or
\* about to update the job.
frame_after_try(frame, out) ==
    IF out.exc # None
    THEN finished(frame, out.exc)
    ELSE [frame EXCEPT !.pc = "saved", !.df = out.df,
                       !.forecaster = out.forecaster,
                       !.metrics = out.metrics,
                       !.model_path = out.model_path]

(***************************************************************************)
(* Requests                                                                 *)
(***************************************************************************)
Series(n) ==
    [i \in 1..n |->
        [date |-> isoformat(timedelta_days(i - 1)),
         value |-> i % (MaxVal + 1)]]

BadSeries == <<[date |-> BadDate, value |-> 1]>>

TrainingRequest(modelType, propertyId, trainingData) ==
    [modelType |-> modelType, propertyId |-> propertyId,
     trainingData |-> trainingData, parameters |-> None]

TrainingRequests ==
    {TrainingRequest("prophet", NoProperty, Series(5)),
     TrainingRequest("prophet", "p1", BadSeries),
     TrainingRequest("lstm", NoProperty, Series(5)),
     TrainingRequest("lstm", NoProperty, Series(default_sequence_length + 1)),
     TrainingRequest("optimization", NoProperty, Series(5))}

\* Every timestamp of 2024.
Timestamps2024 == 0..(DaysInYear(2024) * UnitsPerDay - 1)

ForecastRequest(start, end, history) ==
    [propertyId |-> "p1", startDate |-> start, endDate |-> end,
     modelType |-> "occupancy", historicalData |-> history]

\* Date ranges starting anywhere in 2024, ending from a day before the start
\* to MaxSpanDays after it.
FallbackRequests ==
    {ForecastRequest(isoformat(s), isoformat(s + d), None) :
        s \in Timestamps2024,
        d \in (-UnitsPerDay)..(MaxSpanDays * UnitsPerDay)}

HistoryRequests ==
    {ForecastRequest(isoformat(0), e, h) :
        e \in {isoformat(timedelta_days(3)), BadDate},
        h \in {<<>>, Series(2), BadSeries}}

\* The forecast requests interleaved with training jobs.
FewForecastRequests ==
    {ForecastRequest(isoformat(10), isoformat(11), None),
     ForecastRequest(isoformat(0), isoformat(timedelta_days(3)), Series(2))}

ForecastRequests == FallbackRequests \cup HistoryRequests

OptimizePriceRequests ==
    {[propertyId |-> "p1", date |-> isoformat(0),
      context |-> [basePrice |-> b, currentOccupancy |-> o]] :
        b \in {None, Some(200)},
        o \in {None, Some(92), Some(90), Some(70), Some(45), Some(30),
               Some(10)}}

FewOptimizePriceRequests ==
    {r \in OptimizePriceRequests :
        r.context.basePrice # None /\ r.context.currentOccupancy = Some(92)}

(***************************************************************************)
(* The endpoints                                                            *)
(***************************************************************************)
Call(op, body) == [op |-> op, body |-> body]

Init ==
    /\ training_jobs = <<>>
    /\ tasks = <<>>
    /\ now = 0
    /\ artifacts = {}
    /\ request = Call("none", None)
    /\ response = [op |-> "none", code |-> 0]
    /\ lstm = LSTMForecaster(default_sequence_length)

\* POST /train
TrainModel(req) ==
    /\ Cardinality(DOMAIN training_jobs) < MaxJobs
    /\ \E job_id \in uuid4(training_jobs) :
        /\ training_jobs' = DictSet(training_jobs, job_id, NewJob(req, now))
        /\ tasks' = add_task(tasks, job_id, req)
        /\ request' = Call("train", req)
        /\ response' = TrainingResponse(job_id, req.modelType, "PENDING",
                                        None, None, None)
    /\ UNCHANGED <<now, artifacts, lstm>>

\* GET /train/status/{job_id}
GetTrainingStatus(job_id) ==
    /\ request' = Call("status", [job_id |-> job_id])
    /\ response' = get_training_status(training_jobs, job_id)
    /\ UNCHANGED <<training_jobs, tasks, now, artifacts, lstm>>

\* The occupancy ladder of optimize_price, in hundredths
multiplier_of(occupancy) ==
    IF occupancy >= 90 THEN 150
    ELSE IF occupancy >= 70 THEN 120
    ELSE IF occupancy >= 50 THEN 100
    ELSE IF occupancy >= 30 THEN 90
    ELSE 85

\* context.get(key, default)
get_or(opt, default) == IF opt = None THEN default ELSE the(opt)

\* POST /optimize-price; recommendedPrice is in hundredths
optimize_price(req) ==
    [op |-> "optimize-price", code |-> 200,
     recommendedPrice |->
        get_or(req.context.basePrice, 100)
            * multiplier_of(get_or(req.context.currentOccupancy, 50)),
     confidence |-> 75]

OptimizePrice(req) ==
    /\ request' = Call("optimize-price", req)
    /\ response' = optimize_price(req)
    /\ UNCHANGED <<training_jobs, tasks, now, artifacts, lstm>>

ForecastResponse(req, forecast_points, metrics, t) ==
    [op |-> "forecast", code |-> 200, propertyId |-> req.propertyId,
     modelType |-> req.modelType, forecast |-> forecast_points,
     accuracy |-> Some(metrics.accuracy), mape |-> Some(metrics.mape),
     generatedAt |-> utcnow_isoformat(t)]

\* The rows of forecast_df inside the requested window, as ForecastPoints
RECURSIVE extract_points(_, _, _)
extract_points(forecast_df, start_date, end_date) ==
    IF forecast_df = <<>> THEN <<>>
    ELSE LET row == forecast_df[1]
             rest == extract_points(Tail(forecast_df), start_date, end_date)
         IN  IF row.ds >= start_date /\ row.ds <= end_date
             THEN <<[date |-> isoformat(row.ds),
                     predictedValue |-> row.yhat,
                     lowerBound |-> row.yhat_lower,
                     upperBound |-> row.yhat_upper,
                     confidence |-> 80]>> \o rest
             ELSE rest

\* POST /forecast: any exception becomes HTTP 500
generate_forecast(req, lib, t) ==
    IF ~parses(req.startDate) \/ ~parses(req.endDate)
    THEN HTTPException("forecast", 500, "Unknown datetime string")
    ELSE
    LET start_date == to_datetime(req.startDate)
        end_date == to_datetime(req.endDate)
        periods == days_of(end_date - start_date) + 1
    IN  IF req.historicalData # None /\ Len(req.historicalData) > 0
        THEN LET built == build_df(req.historicalData)
             IN  IF built.exc # None
                 THEN HTTPException("forecast", 500, str(built.exc))
                 ELSE
                 LET trained == Prophet_train(ProphetForecaster, built.df,
                                              None, lib)
                 IN  IF trained.exc # None
                     THEN HTTPException("forecast", 500, str(trained.exc))
                     ELSE IF periods < 0
                     THEN HTTPException("forecast", 500, "negative periods")
                     ELSE ForecastResponse(
                            req,
                            extract_points(
                                Prophet_forecast(trained.self, periods),
                                start_date, end_date),
                            trained.ret, t)
        ELSE ForecastResponse(
                req, generate_fallback_forecast(start_date, end_date),
                [mape |-> 20, accuracy |-> 80], t)

GenerateForecast(req) ==
    /\ \E lib \in FitOutcomes :
        /\ request' = Call("forecast", req)
        /\ response' = generate_forecast(req, lib, now)
    /\ UNCHANGED <<training_jobs, tasks, now, artifacts, lstm>>

(***************************************************************************)
(* The background unit of job j.  The coroutine has no await, so a single  *)
(* event loop runs it in one piece: the runs in which its three steps      *)
(* follow one another.  It is cut here where the registry is written       *)
(* (line 502, lines 539-553), which also admits every run of an executor    *)
(* that lets other requests and other units fall between its writes.       *)
(***************************************************************************)
BgStart(j) ==
    /\ j \in DOMAIN tasks
    /\ tasks[j].pc = "queued"
    /\ training_jobs' = MarkInProgress(training_jobs, j)
    /\ tasks' = [tasks EXCEPT ![j].pc = "started"]
    /\ UNCHANGED <<now, artifacts, request, response, lstm>>

\* Lines 505-534: the DataFrame, the dispatch on modelType with train, the
\* path and save.  An exception raised on the way runs the except branch.
BgRun(j) ==
    /\ j \in DOMAIN tasks
    /\ tasks[j].pc = "started"
    /\ UNCHANGED <<now, request, response, lstm>>
    /\ \E out \in TryOutcomes(tasks[j].request, now) :
        /\ artifacts' =
            IF out.wrote
            THEN artifacts \cup {[path |-> out.model_path, job |-> j]}
            ELSE artifacts
        /\ training_jobs' = registry_after_try(training_jobs, j, out, now)
        /\ tasks' = [tasks EXCEPT ![j] = frame_after_try(@, out)]

BgComplete(j) ==
    /\ j \in DOMAIN tasks
    /\ tasks[j].pc = "saved"
    /\ training_jobs' = RecordCompletion(training_jobs, j, tasks[j].metrics,
                                         tasks[j].model_path, now)
    /\ tasks' = [tasks EXCEPT ![j] = finished(@, None)]
    /\ UNCHANGED <<now, artifacts, request, response, lstm>>

\* Time passes.
Tick ==
    /\ now < MaxClock
    /\ now' = now + 1
    /\ UNCHANGED <<training_jobs, tasks, artifacts, request, response, lstm>>

BgStep(j) ==
    BgStart(j) \/ BgRun(j) \/ BgComplete(j)

Next ==
    \/ \E req \in TrainingRequests : TrainModel(req)
    \/ \E job_id \in JobIds : GetTrainingStatus(job_id)
    \/ \E req \in FewForecastRequests : GenerateForecast(req)
    \/ \E req \in FewOptimizePriceRequests : OptimizePrice(req)
    \/ \E j \in JobIds : BgStep(j)
    \/ Tick

Spec == Init /\ [][Next]_vars

\* Liveness: every background unit that can take a step eventually takes it
\* (the event loop runs each task it was handed).
FairSpec == Spec /\ \A j \in JobIds : WF_vars(BgStep(j))

(***************************************************************************)
(* The forecast endpoint on its own: one request per run, over every date   *)
(* range of ForecastRequests.                                               *)
(***************************************************************************)
ForecastNext ==
    /\ request.op = "none"
    /\ \E req \in ForecastRequests : GenerateForecast(req)

ForecastSpec == Init /\ [][ForecastNext]_vars

(***************************************************************************)
(* An LSTMForecaster driven directly: constructed, trained at most once,    *)
(* asked for a forecast at most once.                                       *)
(***************************************************************************)
SeqLens == (1..MaxSeqLen) \cup {default_sequence_length}

RECURSIVE SeqsUpTo(_, _)
SeqsUpTo(S, n) ==
    IF n = 0 THEN {<<>>}
    ELSE LET shorter == SeqsUpTo(S, n - 1)
         IN  shorter \cup {Append(q, x) : q \in shorter, x \in S}

\* Raw series: every sequence of values 0..MaxVal of length up to MaxLen
RawSeries == SeqsUpTo(0..MaxVal, MaxLen)

LSTMInit ==
    /\ training_jobs = <<>>
    /\ tasks = <<>>
    /\ now = 0
    /\ artifacts = {}
    /\ request = Call("none", None)
    /\ response = [op |-> "none", code |-> 0]
    /\ lstm \in {LSTMForecaster(L) : L \in SeqLens}

LSTMTrain(data) ==
    /\ lstm.model = None
    /\ lstm.scaler = None
    /\ request.op = "none"
    /\ \E lib \in FitOutcomes :
        LET out == LSTM_train(lstm, data, None, lib)
        IN  /\ lstm' = out.self
            /\ request' = Call("lstm.train", [data |-> data])
            /\ response' = [op |-> "lstm.train", self |-> out.self,
                            ret |-> out.ret, exc |-> out.exc,
                            calls |-> out.calls]
    /\ UNCHANGED <<training_jobs, tasks, now, artifacts>>

LSTMForecast(last_sequence, periods) ==
    /\ request.op # "lstm.forecast"
    /\ LET out == LSTM_forecast(lstm, last_sequence, periods)
       IN  /\ request' = Call("lstm.forecast",
                              [last_sequence |-> last_sequence,
                               periods |-> periods])
           /\ response' = [out EXCEPT !.self = lstm] @@ [op |-> "lstm.forecast"]
    /\ UNCHANGED <<training_jobs, tasks, now, artifacts, lstm>>

LSTMNext ==
    \/ \E data \in RawSeries : LSTMTrain(data)
    \/ \E last_sequence \in RawSeries, periods \in 0..MaxPeriods :
        LSTMForecast(last_sequence, periods)

LSTMSpec == LSTMInit /\ [][LSTMNext]_vars

(***************************************************************************)
(* Properties                                                               *)
(***************************************************************************)
TERMINAL == {"COMPLETED", "FAILED"}

StatusMoves ==
    {<<"PENDING", "IN_PROGRESS">>, <<"IN_PROGRESS", "COMPLETED">>,
     <<"IN_PROGRESS", "FAILED">>}

\* C1: a job's status only moves PENDING -> IN_PROGRESS -> COMPLETED or
\* FAILED: every entry starts PENDING, each change of status is one of these
\* moves (so never backwards, never from PENDING to a terminal status, never
\* out of a terminal status), and no entry disappears.
C1_StatusMonotonic ==
    [][/\ \A j \in DOMAIN training_jobs :
            /\ j \in DOMAIN training_jobs'
            /\ \/ training_jobs'[j].status = training_jobs[j].status
               \/ <<training_jobs[j].status, training_jobs'[j].status>>
                    \in StatusMoves
       /\ \A j \in DOMAIN training_jobs' \ DOMAIN training_jobs :
            training_jobs'[j].status = "PENDING"]_vars

\* Two jobs were submitted; one has COMPLETED and the other FAILED.
C1_Witness ==
    \E j, k \in DOMAIN training_jobs :
        /\ training_jobs[j].status = "COMPLETED"
        /\ training_jobs[k].status = "FAILED"

\* A step that hands a new task to the background (a submission) answers
\* PENDING with an identifier the registry did not hold, stores that entry
\* as PENDING, queues the unit without running it, and touches no other
\* unit and no artifact.
C2_SubmissionStep ==
    DOMAIN tasks' # DOMAIN tasks =>
        /\ response'.op = "train"
        /\ response'.status = "PENDING"
        /\ response'.jobId \notin DOMAIN training_jobs
        /\ response'.jobId \in DOMAIN training_jobs'
        /\ training_jobs'[response'.jobId].status = "PENDING"
        /\ DOMAIN tasks' = DOMAIN tasks \cup {response'.jobId}
        /\ tasks'[response'.jobId].pc = "queued"
        /\ \A j \in DOMAIN tasks : tasks'[j] = tasks[j]
        /\ artifacts' = artifacts

\* A status poll that found the job answered COMPLETED or FAILED only if the
\* job's background unit has finished; otherwise PENDING or IN_PROGRESS.
C2_PollAnswer ==
    (response.op = "status" /\ response.code = 200) =>
        /\ response.status \in {"PENDING", "IN_PROGRESS"} \cup TERMINAL
        /\ response.status \in TERMINAL => tasks[response.jobId].pc = "done"

\* C2: every submission returns PENDING and a previously unseen job
\* identifier without running any step of training, and a status poll
\* returns COMPLETED or FAILED only after the job's background unit has
\* finished.
C2_SubmitAndPoll == [][C2_SubmissionStep]_vars /\ []C2_PollAnswer

\* A poll answered COMPLETED for a job whose unit has finished, while
\* another job is still waiting.
C2_Witness ==
    /\ response.op = "status"
    /\ response.code = 200
    /\ response.status = "COMPLETED"
    /\ \E k \in DOMAIN tasks : tasks[k].pc = "queued"

\* The entry of a job whose unit caught an exception: FAILED, the message
\* recorded, nothing of a completion recorded, and a poll shows exactly that.
C3_FailedEntry(j) ==
    /\ tasks[j].pc = "done"
    /\ training_jobs[j].status = "FAILED"
    /\ training_jobs[j].errorMessage = Some(str(tasks[j].exc))
    /\ training_jobs[j].accuracy = None
    /\ training_jobs[j].mape = None
    /\ training_jobs[j].modelPath = None
    /\ training_jobs[j].completedAt = None
    /\ get_training_status(training_jobs, j).status = "FAILED"
    /\ get_training_status(training_jobs, j).errorMessage
            = Some(str(tasks[j].exc))

\* C3: if any step of a job's background unit fails (building the series,
\* training, persisting, or a model type with no strategy), the job ends
\* FAILED with the captured message in errorMessage, never COMPLETED, with
\* no accuracy or artifact path; the failure reaches no caller (the step in
\* which the unit fails answers no request) and shows only in a later poll.
C3_FailureRecorded ==
    /\ [](\A j \in DOMAIN tasks :
            /\ tasks[j].exc # None => C3_FailedEntry(j)
            /\ (tasks[j].pc = "done"
                    /\ tasks[j].request.modelType = "optimization")
                => tasks[j].exc # None)
    /\ [][\A j \in DOMAIN tasks :
            (tasks[j].exc = None /\ tasks'[j].exc # None)
                => (request' = request /\ response' = response)]_vars

\* One job failed for want of a strategy, another on saving its artifact,
\* and the last poll reported a failure.
C3_Witness ==
    /\ \E j \in DOMAIN tasks :
        /\ tasks[j].exc # None
        /\ tasks[j].request.modelType = "optimization"
    /\ \E j \in DOMAIN tasks :
        /\ tasks[j].exc # None
        /\ tasks[j].exc.type = "OSError"
    /\ response.op = "status"
    /\ response.code = 200
    /\ response.status = "FAILED"

\* C4: artifacts never collide: two distinct jobs never write to, and never
\* record, the same artifact path.
C4_ArtifactsNeverCollide ==
    /\ \A a, b \in artifacts : a.job # b.job => a.path # b.path
    /\ \A j, k \in DOMAIN training_jobs :
        (j # k /\ training_jobs[j].modelPath # None
               /\ training_jobs[k].modelPath # None)
            => training_jobs[j].modelPath # training_jobs[k].modelPath

\* C5: every submitted job eventually reaches COMPLETED or FAILED, and no
\* step removes a job from the registry.
C5_EveryJobFinishes ==
    /\ \A j \in JobIds :
        (j \in DOMAIN training_jobs)
            ~> (j \in DOMAIN training_jobs
                    /\ training_jobs[j].status \in TERMINAL)
    /\ [][DOMAIN training_jobs \subseteq DOMAIN training_jobs']_vars

\* Every job the run may submit has been submitted and has finished.
C5_Witness ==
    /\ DOMAIN training_jobs = JobIds
    /\ \A j \in JobIds : training_jobs[j].status \in TERMINAL

\* C6: an existing registry entry changes only in a step of its own job's
\* background unit, and that step changes no other job's entry; submissions
\* of other jobs, polls, forecasts and price requests change no entry.
C6_SingleWriter ==
    [][\A j \in DOMAIN training_jobs :
        (j \notin DOMAIN training_jobs'
            \/ training_jobs'[j] # training_jobs[j])
        => /\ j \in DOMAIN training_jobs'
           /\ tasks'[j].pc # tasks[j].pc
           /\ request' = request
           /\ response' = response
           /\ \A k \in DOMAIN training_jobs \ {j} :
                /\ k \in DOMAIN training_jobs'
                /\ training_jobs'[k] = training_jobs[k]
                /\ tasks'[k] = tasks[k]]_vars

\* One job's unit has run to its end while another job's entry, created
\* before, is still as its submission left it; a forecast was answered last.
C6_Witness ==
    /\ \E j, k \in DOMAIN training_jobs :
        /\ training_jobs[j].status \in TERMINAL
        /\ training_jobs[k].status = "PENDING"
    /\ response.op = "forecast"

\* C7: training the sequence-window strategy on N <= L observations fails
\* with InsufficientDataError, before any model is built or fitted.
C7_InsufficientData ==
    (response.op = "lstm.train"
        /\ Len(request.body.data) <= response.self.sequence_length)
    => /\ response.exc # None
       /\ response.exc.type = "InsufficientDataError"
       /\ response.calls = <<>>
       /\ response.self.model = None

Clamp01(x) == IF x < 0 THEN 0 ELSE IF x > One THEN One ELSE x

\* The last request was answered by the fallback generator.
FallbackAnswered ==
    /\ request.op = "forecast"
    /\ response.op = "forecast"
    /\ response.code = 200
    /\ request.body.historicalData = None

\* C8: every fallback point has 0 <= lowerBound <= predictedValue <=
\* upperBound <= 1, with predictedValue = clamp(0.5 * seasonal * weekend),
\* lowerBound = clamp(predictedValue - 0.1), upperBound =
\* clamp(predictedValue + 0.1), all clamped to [0, 1], and confidence 0.5.
C8_FallbackBounds ==
    FallbackAnswered =>
        \A i \in 1..Len(response.forecast) :
            LET p == response.forecast[i]
                ts == to_datetime(p.date)
            IN  /\ 0 <= p.lowerBound
                /\ p.lowerBound <= p.predictedValue
                /\ p.predictedValue <= p.upperBound
                /\ p.upperBound <= One
                /\ p.predictedValue =
                    Clamp01(5 * seasonal_map[p.date.month]
                              * (IF (ts \div UnitsPerDay) % 7 \in {5, 6}
                                 THEN 12 ELSE 10))
                /\ p.lowerBound = Clamp01(p.predictedValue - 1000)
                /\ p.upperBound = Clamp01(p.predictedValue + 1000)
                /\ p.confidence = 50

\* The fallback forecast holds the point of 2024-07-06, a Saturday in July:
\* 0.81 between 0.71 and 0.91.
C8_Witness ==
    /\ FallbackAnswered
    /\ \E i \in 1..Len(response.forecast) :
        /\ response.forecast[i].date
            = [year |-> 2024, month |-> 7, day |-> 6, time |-> 0]
        /\ response.forecast[i].predictedValue = 8100
        /\ response.forecast[i].lowerBound = 7100
        /\ response.forecast[i].upperBound = 9100

ReqStart == to_datetime(request.body.startDate)
ReqEnd == to_datetime(request.body.endDate)

DayOfDate(d) == [year |-> d.year, month |-> d.month, day |-> d.day]

\* Date strings in increasing order
DateLess(a, b) ==
    \/ a.year < b.year
    \/ a.year = b.year /\ a.month < b.month
    \/ a.year = b.year /\ a.month = b.month /\ a.day < b.day
    \/ a.year = b.year /\ a.month = b.month /\ a.day = b.day
        /\ a.time < b.time

PointsCount == Len(response.forecast) = days_of(ReqEnd - ReqStart) + 1

PointsIncreasing ==
    \A i \in 1..(Len(response.forecast) - 1) :
        DateLess(response.forecast[i].date, response.forecast[i + 1].date)

\* One point on each calendar day from the start's to the end's, none twice
OnePointPerCalendarDay ==
    /\ {DayOfDate(response.forecast[i].date) :
            i \in 1..Len(response.forecast)}
        = {CalendarDay(t) : t \in ReqStart..ReqEnd}
    /\ \A i, k \in 1..Len(response.forecast) :
        i # k => DayOfDate(response.forecast[i].date)
                    # DayOfDate(response.forecast[k].date)

\* C9 as stated: for start <= end the fallback generator returns exactly
\* (end - start).days + 1 points, one for each calendar day from start to
\* end inclusive, none missing or repeated, in increasing date order.
C9_OnePerCalendarDay ==
    (FallbackAnswered /\ ReqStart <= ReqEnd) =>
        PointsCount /\ OnePointPerCalendarDay /\ PointsIncreasing

\* C9 amended: for start <= end the fallback generator returns exactly
\* (end - start).days + 1 points, the k-th at start + k days (k from 0), in
\* increasing date order; they fall one on each calendar day from start to
\* end inclusive whenever end's time of day is not earlier than start's.
C9_OnePerElapsedDay ==
    (FallbackAnswered /\ ReqStart <= ReqEnd) =>
        /\ PointsCount
        /\ PointsIncreasing
        /\ \A i \in 1..Len(response.forecast) :
            response.forecast[i].date
                = isoformat(ReqStart + timedelta_days(i - 1))
        /\ TimeOfDay(ReqEnd) >= TimeOfDay(ReqStart) => OnePointPerCalendarDay

\* A range of several days whose end is earlier in the day than its start.
C9_Witness ==
    /\ FallbackAnswered
    /\ ReqStart <= ReqEnd
    /\ TimeOfDay(ReqEnd) < TimeOfDay(ReqStart)
    /\ Len(response.forecast) >= 2

LastN(q, n) == SubSeq(q, Len(q) - n + 1, Len(q))

====
